---- MODULE Spec2Model ----
(***************************************************************************)
(* Model of the "covers" package: machine-readable //covers: comments are  *)
(* bound to the coverage counters of the blocks that contain them, and     *)
(* tests assert on the change of those counters.                           *)
(*                                                                         *)
(* The repository holds three revisions of the package; a process links    *)
(* exactly one of them (variable rev):                                     *)
(*   "v0"       src/unnamed/part_000   Covers/Counter, init per Setup      *)
(*   "handle"   src/covers.go          Covers/Counter, mustInit            *)
(*   "snapshot" src/unnamed/part_001   Counters/Snapshot, initCounters     *)
(***************************************************************************)
EXTENDS Integers, Sequences, FiniteSets, TLC

(***************************************************************************)
(* Bounds of the model.                                                    *)
(***************************************************************************)
\* source lines of a scanned file are 1..MaxLine
MaxLine == 3
\* source columns of a scanned file are 1..MaxCol
MaxCol == 2

(***************************************************************************)
(* uint32 values, kept as two 16-bit halves <<hi, lo>>.                    *)
(***************************************************************************)
Half == 2^16

Zero32 == <<0, 0>>

Max32 == <<Half - 1, Half - 1>>

\* the uint32 value of a small natural number
Nat32(k) == <<(k \div Half) % Half, k % Half>>

\* *ctr + 1 as the instrumented code computes it (wraps at 2^32)
Inc32(v) ==
  IF v[2] = Half - 1
    THEN <<(v[1] + 1) % Half, 0>>
    ELSE <<v[1], v[2] + 1>>

\* the mutant of Sub32: a subtraction that stops at zero instead of wrapping
Sub32Saturating(a, b) ==
  IF a[1] < b[1] \/ (a[1] = b[1] /\ a[2] < b[2])
    THEN Zero32
    ELSE LET lo == a[2] - b[2]
             borrow == IF lo < 0 THEN 1 ELSE 0
         IN  <<(a[1] - b[1] - borrow + Half) % Half, (lo + Half) % Half>>

\* new - old on uint32 (Go's unsigned subtraction, modulo 2^32)
Sub32(a, b) ==
  LET lo == a[2] - b[2]
      borrow == IF lo < 0 THEN 1 ELSE 0
  IN  <<(a[1] - b[1] - borrow + Half) % Half, (lo + Half) % Half>>

(***************************************************************************)
(* Maps (Go's map[K]V) as functions with a finite domain.                  *)
(***************************************************************************)
\* a counter address &cover.Counters[file][i] is <<module path, file, i>>
NilPtr == <<"", "", 0>>

Addr(file, i) == <<file[1], file[2], i>>

EmptyMap == [k \in {} |-> NilPtr]

Put(m, k, v) == [x \in (DOMAIN m) \cup {k} |-> IF x = k THEN v ELSE m[x]]

(***************************************************************************)
(* The scanned module and the instrumentation map.                         *)
(*   comment  [line, col, text]   text = <<prefix, rest>>                  *)
(*   file     [abs, comments]     abs = <<dir, rel>>, comments ascending   *)
(*   pkg      [files]             pkg.CompiledGoFiles with pkg.Syntax      *)
(*   block    [line0, col0, line1, col1]                                   *)
(*   module   [loads, pkgs, blocks]  blocks: cover.Blocks, key -> Seq      *)
(* cover.Blocks is keyed by <<module path, file>>.                         *)
(***************************************************************************)
TagName == "//covers:"

ModuleDir == "/src/covers"

ModulePath == "jonwillia.ms/covers"

\* strings.HasPrefix(c.Text, TagName)
HasTagPrefix(text) == text[1] = TagName

\* strings.TrimPrefix(c.Text, TagName)
TrimTagPrefix(text) == IF text[1] = TagName THEN text[2] ELSE text[1] \o text[2]

\* strings.HasPrefix(f, dir)
HasDirPrefix(abs) == abs[1] = ModuleDir

\* strings.Replace(f, dir, path, 1)
PathWithModule(abs) == IF abs[1] = ModuleDir THEN <<ModulePath, abs[2]>> ELSE abs

(***************************************************************************)
(* The scan of one package: commentMap, targetMap and, with coverage off,  *)
(* the nil entries of values.  st = [commentMap, targetMap, values].       *)
(***************************************************************************)
\* the body of the loop over commentGroup.List for one comment c
ScanComment(st, path, c, coverageEnabled) ==
  IF HasTagPrefix(c.text)
    THEN LET target == TrimTagPrefix(c.text)
         IN  [commentMap |-> Put(st.commentMap, path, Append(st.commentMap[path], c)),
              targetMap  |-> Put(st.targetMap, c, target),
              values     |-> IF ~coverageEnabled
                               THEN Put(st.values, target, NilPtr)
                               ELSE st.values]
    ELSE st

RECURSIVE ScanComments(_, _, _, _, _)
ScanComments(st, path, comments, k, coverageEnabled) ==
  IF k > Len(comments) THEN st
  ELSE ScanComments(ScanComment(st, path, comments[k], coverageEnabled),
                    path, comments, k + 1, coverageEnabled)

\* the loop over pkg.CompiledGoFiles
RECURSIVE ScanFiles(_, _, _, _)
ScanFiles(st, files, i, coverageEnabled) ==
  IF i > Len(files) THEN st
  ELSE LET f == files[i] IN
    IF HasDirPrefix(f.abs)
      THEN LET path == PathWithModule(f.abs)
               st0  == [st EXCEPT !.commentMap =
                          IF path \in DOMAIN st.commentMap
                            THEN st.commentMap
                            ELSE Put(st.commentMap, path, <<>>)]
           IN  ScanFiles(ScanComments(st0, path, f.comments, 1, coverageEnabled),
                         files, i + 1, coverageEnabled)
      ELSE ScanFiles(st, files, i + 1, coverageEnabled)

(***************************************************************************)
(* The match of comments to blocks.  r = [fatal, values]; fatal is "" or   *)
(* the t.Fatalf that ended the pipeline.                                   *)
(***************************************************************************)
\* the four position tests of the inner loop: the comment lies in the block
Contains(block, c) ==
  /\ ~(c.line < block.line0)
  /\ ~(c.line > block.line1)
  /\ ~(c.line = block.line0 /\ c.col < block.col0)
  /\ ~(c.line = block.line1 /\ c.col > block.col1)

\* the mutant of BindComment: a tag seen before keeps its first counter
BindCommentFirstWins(r, targetMap, c, ctr, strictDup) ==
  IF c \notin DOMAIN targetMap
    THEN [r EXCEPT !.fatal = "target"]
  ELSE LET target == targetMap[c] IN
    IF target \in DOMAIN r.values
      THEN r
      ELSE [r EXCEPT !.values = Put(r.values, target, ctr)]

\* the mutant of BindComment: a tag seen before takes the counter seen last
BindCommentLastWins(r, targetMap, c, ctr, strictDup) ==
  IF c \notin DOMAIN targetMap
    THEN [r EXCEPT !.fatal = "target"]
    ELSE [r EXCEPT !.values = Put(r.values, targetMap[c], ctr)]

\* the binding of one matched comment; strictDup is revision v0's test
BindComment(r, targetMap, c, ctr, strictDup) ==
  IF c \notin DOMAIN targetMap
    THEN [r EXCEPT !.fatal = "target"]
  ELSE LET target == targetMap[c] IN
    IF /\ target \in DOMAIN r.values
       /\ (strictDup \/ r.values[target] # ctr)
      THEN [r EXCEPT !.fatal = "dup"]
      ELSE [r EXCEPT !.values = Put(r.values, target, ctr)]

\* the mutant of CommentLoop: the loop breaks on the last line of the block already
RECURSIVE CommentLoopBreakOnLastLine(_, _, _, _, _, _, _)
CommentLoopBreakOnLastLine(r, targetMap, entry, k, block, ctr, strictDup) ==
  IF r.fatal # "" \/ k > Len(entry) THEN r
  ELSE LET c == entry[k] IN
    IF c.line < block.line0
      THEN CommentLoopBreakOnLastLine(r, targetMap, entry, k + 1, block, ctr, strictDup)
    ELSE IF c.line >= block.line1
      THEN r
    ELSE IF ~Contains(block, c)
      THEN CommentLoopBreakOnLastLine(r, targetMap, entry, k + 1, block, ctr, strictDup)
    ELSE CommentLoopBreakOnLastLine(BindComment(r, targetMap, c, ctr, strictDup),
                                    targetMap, entry, k + 1, block, ctr, strictDup)

\* the loop over commentMapEntry for one block, with its early break
RECURSIVE CommentLoop(_, _, _, _, _, _, _)
CommentLoop(r, targetMap, entry, k, block, ctr, strictDup) ==
  IF r.fatal # "" \/ k > Len(entry) THEN r
  ELSE LET c == entry[k] IN
    IF c.line < block.line0
      THEN CommentLoop(r, targetMap, entry, k + 1, block, ctr, strictDup)
    ELSE IF c.line > block.line1
      THEN r
    ELSE IF ~Contains(block, c)
      THEN CommentLoop(r, targetMap, entry, k + 1, block, ctr, strictDup)
    ELSE CommentLoop(BindComment(r, targetMap, c, ctr, strictDup),
                     targetMap, entry, k + 1, block, ctr, strictDup)

\* the loop over the blocks of one file
RECURSIVE BlockLoop(_, _, _, _, _, _, _)
BlockLoop(r, targetMap, entry, file, blocks, i, strictDup) ==
  IF r.fatal # "" \/ i > Len(blocks) THEN r
  ELSE BlockLoop(CommentLoop(r, targetMap, entry, 1, blocks[i], Addr(file, i), strictDup),
                 targetMap, entry, file, blocks, i + 1, strictDup)

\* the loop over cover.Blocks, visited in the order fileOrder
RECURSIVE FileLoop(_, _, _, _, _, _)
FileLoop(r, st, coverBlocks, fileOrder, j, strictDup) ==
  IF r.fatal # "" \/ j > Len(fileOrder) THEN r
  ELSE LET file == fileOrder[j] IN
    IF file \notin DOMAIN st.commentMap
      THEN FileLoop(r, st, coverBlocks, fileOrder, j + 1, strictDup)
      ELSE FileLoop(BlockLoop(r, st.targetMap, st.commentMap[file], file,
                              coverBlocks[file], 1, strictDup),
                    st, coverBlocks, fileOrder, j + 1, strictDup)

\* the loop over pkgs
RECURSIVE PkgLoop(_, _, _, _, _, _, _)
PkgLoop(r, pkgs, p, coverBlocks, fileOrder, coverageEnabled, strictDup) ==
  IF r.fatal # "" \/ p > Len(pkgs) THEN r
  ELSE LET st == ScanFiles([commentMap |-> EmptyMap, targetMap |-> EmptyMap,
                            values |-> r.values],
                           pkgs[p].files, 1, coverageEnabled)
           r0 == [r EXCEPT !.values = st.values]
       IN  IF ~coverageEnabled
             THEN PkgLoop(r0, pkgs, p + 1, coverBlocks, fileOrder, coverageEnabled, strictDup)
             ELSE PkgLoop(FileLoop(r0, st, coverBlocks, fileOrder, 1, strictDup),
                          pkgs, p + 1, coverBlocks, fileOrder, coverageEnabled, strictDup)

\* the scan-index-match pipeline of mustInit and of initCounters, from the first
\* packages.Load to the table it leaves in values
BuildValues(mod, coverBlocks, fileOrder, coverageEnabled) ==
  IF mod.loads = "error" THEN [fatal |-> "load", values |-> EmptyMap]
  ELSE IF mod.loads = "empty" THEN [fatal |-> "empty", values |-> EmptyMap]
  ELSE PkgLoop([fatal |-> "", values |-> EmptyMap], mod.pkgs, 1, coverBlocks,
               fileOrder, coverageEnabled, FALSE)

\* the pipeline of revision v0's Covers.init: coverage is on, any repeated tag is fatal
BuildValuesV0(mod, coverBlocks, fileOrder) ==
  IF mod.loads = "error" THEN [fatal |-> "load", values |-> EmptyMap]
  ELSE PkgLoop([fatal |-> "", values |-> EmptyMap], mod.pkgs, 1, coverBlocks,
               fileOrder, TRUE, TRUE)

(***************************************************************************)
(* The tests of the process and what they may ask for.                     *)
(***************************************************************************)
\* the tests of a run, in source order
TestOrder == <<"TestOne", "TestTwo">>

\* a run of "go test": its tests run one after the other
SequentialTests == {TestOrder[1], TestOrder[2]}

\* a run whose tests call t.Parallel()
ParallelTests == {TestOrder[1], TestOrder[2]}

Wrappers == {"May", "Should", "Must"}

CoverModes == {"", "set", "count", "atomic"}

Revs == {"v0", "handle", "snapshot"}

\* the tags a test asks for: one that the scenarios annotate, one that none does
AskedTags == {"foobar", "nosuch"}

\* the assertions of a Counter: Run with the callback of TestOne (t.Fatalf on a
\* nonzero delta), IsZero, IsNotZero
Kinds == {"Run", "IsZero", "IsNotZero"}

\* calls of testing.RegisterCover in one run
MaxRegisterCover == 1

\* body operations that add to the state (Exec, Counters made, assertions queued,
\* snapshots taken) in one run, all tests together
MaxOps == 4

\* the same bound for a run of parallel tests
MaxOpsParallel == 2

VARIABLES
  parallel,          \* the tests of the run call t.Parallel()
  rev,               \* the revision of the package the process links
  module,            \* what packages.Load returns: [loads, pkgs]
  built,             \* the -covermode the binary was compiled with ("" = none)
  cover,             \* testing.cover: [Mode, Blocks, Counters]
  mustInitOnce,      \* covers.go: atomic.Bool
  mustInitValues,    \* covers.go: the cached map, [id, m]; id 0 is the nil map
  initCountersOnce,  \* part_001: sync.Once, "fresh" | "running" | "done"
  initCountersValue, \* part_001: the cached map
  tests,             \* per test: position, Covers/Counters object, queues
  last,              \* the most recent API call and what it did
  hist               \* history: pipeline runs, maps made, modes observed

vars == <<parallel, rev, module, built, cover, mustInitOnce, mustInitValues,
          initCountersOnce, initCountersValue, tests, last, hist>>

NilMap == [id |-> 0, m |-> EmptyMap]

NoCall == [t |-> "", op |-> "", tag |-> "", out |-> "", snap |-> 0,
           delta |-> Zero32, since |-> 0]

IdleTest ==
  [pc |-> "idle", isEnabled |-> FALSE, err |-> "", c |-> "none",
   values |-> NilMap, cleanup |-> FALSE, cbs |-> <<>>, snaps |-> <<>>,
   nreg |-> 0, fatal |-> "", failed |-> FALSE,
   panicked |-> FALSE, evals |-> <<>>]

(***************************************************************************)
(* The modules the tests of the full model are run against.                *)
(***************************************************************************)
Comment(l, c, prefix, rest) == [line |-> l, col |-> c, text |-> <<prefix, rest>>]

Block(l0, c0, l1, c1) == [line0 |-> l0, col0 |-> c0, line1 |-> l1, col1 |-> c1]

CoversGo == <<ModulePath, "covers.go">>

\* covers.go with two tags in its first block and a plain comment in its second
FileTagged ==
  [abs |-> <<ModuleDir, "covers.go">>,
   comments |-> <<Comment(2, 1, TagName, "foobar"), Comment(2, 2, TagName, "alias"),
                  Comment(3, 1, "//", " Two")>>]

\* covers.go with the same tag in two blocks
FileDup ==
  [abs |-> <<ModuleDir, "covers.go">>,
   comments |-> <<Comment(2, 1, TagName, "foobar"), Comment(3, 1, TagName, "foobar")>>]

\* the generated test main, outside the module directory
FileTestMain ==
  [abs |-> <<"/cache", "_testmain.go">>,
   comments |-> <<Comment(1, 1, TagName, "nosuch")>>]

TwoBlocks == (CoversGo :> <<Block(1, 1, 2, 2), Block(3, 1, 3, 2)>>)

\* one package
ModSingle ==
  [mod |-> [loads |-> "ok", pkgs |-> << [files |-> <<FileTagged>>] >>],
   blocks |-> TwoBlocks]

\* the package and its test variant, as packages.Load returns them with Tests: true
ModVariants ==
  [mod |-> [loads |-> "ok",
            pkgs |-> << [files |-> <<FileTagged>>],
                        [files |-> <<FileTagged, FileTestMain>>] >>],
   blocks |-> TwoBlocks]

\* a tag on two blocks
ModDup ==
  [mod |-> [loads |-> "ok", pkgs |-> << [files |-> <<FileDup>>] >>],
   blocks |-> TwoBlocks]

Scenarios == {ModSingle, ModVariants, ModDup}

\* the values a counter may hold when the first test starts
StartCounts == {Zero32, Max32}

\* the orders in which "range cover.Blocks" may visit the files
FileOrders(blocks) ==
  LET S == DOMAIN blocks
      n == Cardinality(S)
  IN  {o \in [1..n -> S] : \A i, j \in 1..n : i # j => o[i] # o[j]}

\* cover.Counters, one cell per block, all holding v
CountersOf(blocks, v) ==
  LET cells == UNION {{Addr(f, i) : i \in 1..Len(blocks[f])} : f \in DOMAIN blocks}
  IN  [a \in cells |-> v]

\* testing.cover of a binary compiled with mode cm from scenario sc
CoverOf(sc, cm, v) ==
  IF cm = ""
    THEN [Mode |-> cm, Blocks |-> EmptyMap, Counters |-> EmptyMap]
    ELSE [Mode |-> cm, Blocks |-> sc.blocks, Counters |-> CountersOf(sc.blocks, v)]

InitCommon ==
  /\ mustInitOnce = FALSE
  /\ mustInitValues = NilMap
  /\ initCountersOnce = "fresh"
  /\ initCountersValue = NilMap
  /\ tests = [t \in (IF parallel THEN ParallelTests ELSE SequentialTests) |-> IdleTest]
  /\ last = NoCall
  /\ hist = [runs |-> 0, maps |-> 0, modes |-> {}, flags |-> <<>>, ops |-> 0, regs |-> 0]

InitProcess ==
  /\ rev \in Revs
  /\ built \in CoverModes
  /\ \E sc \in (IF rev = "v0" THEN {ModSingle, ModVariants} ELSE {ModVariants, ModDup}),
        v \in StartCounts :
       /\ module = sc.mod
       /\ cover = CoverOf(sc, built, v)
  /\ InitCommon

\* "go test -covermode=built": the tests run one after the other
Init == parallel = FALSE /\ InitProcess

\* the same with tests that call t.Parallel()
InitParallel == parallel = TRUE /\ InitProcess

(***************************************************************************)
(* Setup and the wrappers.                                                 *)
(***************************************************************************)
Range(m) == {m[k] : k \in DOMAIN m}

Event(t, op, tag, out) ==
  [t |-> t, op |-> op, tag |-> tag, out |-> out, snap |-> 0, delta |-> Zero32, since |-> 0]

\* the switch on testing.CoverMode() in Setup: c.isEnabled
IsEnabled(cm) == cm \in {"count", "atomic"}

\* the switch on testing.CoverMode() in Setup: err
SetupErr(cm) ==
  IF cm \in {"count", "atomic"} THEN ""
  ELSE IF cm = "" THEN "ErrNoCoverage"
  ELSE "ErrWrongMode"

\* t.Fatalf: the test function stops here and the test's cleanups run
Fatal(tr, why) == [tr EXCEPT !.fatal = why, !.failed = TRUE, !.pc = "cleanup"]

\* the mutant of NewSnapshot: the base values are not read, they start at zero
NewSnapshotZero(m) ==
  [values |-> [a \in Range(m) |-> Zero32],
   since  |-> [a \in Range(m) |-> 0]]

\* the mutant of NewSnapshot: the nil address gets no base value
NewSnapshotNoNil(m) ==
  [values |-> [a \in Range(m) \ {NilPtr} |-> cover.Counters[a]],
   since  |-> [a \in Range(m) \ {NilPtr} |-> 0]]

\* Counters.NewSnapshot over the table m; since counts the increments of each
\* counter after the capture (history)
NewSnapshot(m) ==
  [values |-> [a \in Range(m) |-> IF a # NilPtr THEN cover.Counters[a] ELSE Zero32],
   since  |-> [a \in Range(m) |-> 0]]

\* May, Should and Must on what Setup returned
Wrapper(tr, w) ==
  IF w = "Must" /\ tr.err # ""
    THEN Fatal(tr, "setup")
    ELSE [tr EXCEPT !.pc = "body"]

\* the mutant of SetupReturn: the cleanup is registered whatever err is
SetupReturnAlwaysCleanup(tr, obj, w) ==
  IF rev = "snapshot"
    THEN Wrapper([tr EXCEPT !.c = "ok", !.values = obj,
                            !.snaps = <<NewSnapshot(obj.m)>>], w)
    ELSE Wrapper([tr EXCEPT !.c = "ok", !.values = obj, !.cleanup = TRUE], w)

\* the end of Setup once the table obj is at hand, and the return of the wrapper
\* w that called it
SetupReturn(tr, obj, w) ==
  IF rev = "snapshot"
    THEN Wrapper([tr EXCEPT !.c = "ok", !.values = obj,
                            !.snaps = <<NewSnapshot(obj.m)>>], w)
    ELSE Wrapper([tr EXCEPT !.c = "ok", !.values = obj, !.cleanup = (tr.err = "")], w)

SetupEvent(t, tr, w) ==
  Event(t, w, "", IF tr.fatal # "" THEN "fatal" ELSE "handle")

\* the test runner starts the tests in source order, and a sequential run starts
\* a test when the one before it is over
StartsNext(t) ==
  \A i \in DOMAIN TestOrder :
    TestOrder[i] = t =>
      \A j \in 1..(i - 1) :
        IF parallel THEN tests[TestOrder[j]].pc # "idle"
                    ELSE tests[TestOrder[j]].pc = "done"

\* testing.CoverMode() reports cm to this call of Setup: the mode the process
\* holds, or, after an earlier Setup, another one set by testing.RegisterCover (at
\* most MaxRegisterCover times in a run); the binary's counters stay those it was
\* built with
CoverModeIs(cm) ==
  /\ cm = cover.Mode \/ (hist.modes # {} /\ hist.regs < MaxRegisterCover)
  /\ cover' = [cover EXCEPT !.Mode = cm]
  /\ hist' = [hist EXCEPT !.modes = @ \cup {cm},
                          !.regs = IF cm = cover.Mode THEN @ ELSE @ + 1]

\* a test calls May, Should or Must; Setup reads testing.CoverMode()
SetupEnter(t, cm) ==
  /\ tests[t].pc = "idle"
  /\ StartsNext(t)
  /\ rev \in {"handle", "snapshot"}
  /\ CoverModeIs(cm)
  /\ tests' = [tests EXCEPT ![t] =
       [@ EXCEPT !.pc = "init",
                 !.isEnabled = IsEnabled(cm), !.err = SetupErr(cm)]]
  /\ last' = NoCall
  /\ UNCHANGED <<parallel, rev, module, built, mustInitOnce, mustInitValues,
                 initCountersOnce, initCountersValue>>

\* revision v0: Setup returns nil and ErrNoCoverage without coverage, and runs
\* c.init otherwise
SetupEnterV0(t, w, cm) ==
  /\ tests[t].pc = "idle"
  /\ StartsNext(t)
  /\ rev = "v0"
  /\ CoverModeIs(cm)
  /\ tests' = [tests EXCEPT ![t] =
       IF cm = ""
         THEN Wrapper([@ EXCEPT !.err = "ErrNoCoverage", !.c = "nil"], w)
         ELSE [@ EXCEPT !.pc = "pipeline", !.isEnabled = TRUE]]
  /\ last' = IF cm = ""
               THEN Event(t, w, "", IF w = "Must" THEN "fatal" ELSE "nil")
               ELSE NoCall
  /\ UNCHANGED <<parallel, rev, module, built, mustInitOnce, mustInitValues,
                 initCountersOnce, initCountersValue>>

\* revision v0: Covers.init builds the table of this Covers
CoversInitV0(t, w) ==
  /\ tests[t].pc = "pipeline"
  /\ rev = "v0"
  /\ \E o \in FileOrders(cover.Blocks) :
       LET r   == BuildValuesV0(module, cover.Blocks, o)
           obj == [id |-> hist.maps + 1, m |-> r.values]
       IN  /\ tests' = [tests EXCEPT ![t] =
                IF r.fatal # "" THEN Fatal(@, r.fatal) ELSE SetupReturn(@, obj, w)]
           /\ hist' = [hist EXCEPT !.runs = @ + 1,
                                   !.maps = IF r.fatal = "" THEN @ + 1 ELSE @,
                                   !.flags = Append(@, TRUE)]
           /\ last' = SetupEvent(t, tests'[t], w)
  /\ UNCHANGED <<parallel, rev, module, built, cover, mustInitOnce, mustInitValues,
                 initCountersOnce, initCountersValue>>

(***************************************************************************)
(* covers.go: mustInit, guarded by an atomic.Bool that is read on entry    *)
(* and set by a deferred call.                                             *)
(***************************************************************************)
\* mustInitOnce.Load() is true: return mustInitValues
MustInitCached(t, w) ==
  /\ tests[t].pc = "init"
  /\ rev = "handle"
  /\ mustInitOnce
  /\ tests' = [tests EXCEPT ![t] = SetupReturn(@, mustInitValues, w)]
  /\ last' = SetupEvent(t, tests'[t], w)
  /\ UNCHANGED <<parallel, rev, module, built, cover, mustInitOnce, mustInitValues,
                 initCountersOnce, initCountersValue, hist>>

\* mustInitOnce.Load() is false: go on to the pipeline
MustInitEnter(t) ==
  /\ tests[t].pc = "init"
  /\ rev = "handle"
  /\ ~mustInitOnce
  /\ tests' = [tests EXCEPT ![t].pc = "pipeline"]
  /\ last' = NoCall
  /\ UNCHANGED <<parallel, rev, module, built, cover, mustInitOnce, mustInitValues,
                 initCountersOnce, initCountersValue, hist>>

\* the pipeline, up to "mustInitValues = values"; a t.Fatalf runs the deferred Store
MustInitBuild(t) ==
  /\ tests[t].pc = "pipeline"
  /\ rev = "handle"
  /\ \E o \in FileOrders(cover.Blocks) :
       LET r   == BuildValues(module, cover.Blocks, o, tests[t].isEnabled)
           obj == [id |-> hist.maps + 1, m |-> r.values]
       IN  /\ tests' = [tests EXCEPT ![t] =
                IF r.fatal # "" THEN Fatal(@, r.fatal) ELSE [@ EXCEPT !.pc = "ret"]]
           /\ mustInitValues' = IF r.fatal # "" THEN mustInitValues ELSE obj
           /\ mustInitOnce' = IF r.fatal # "" THEN TRUE ELSE mustInitOnce
           /\ hist' = [hist EXCEPT !.runs = @ + 1,
                                   !.maps = IF r.fatal = "" THEN @ + 1 ELSE @,
                                   !.flags = Append(@, tests[t].isEnabled)]
           /\ last' = NoCall
  /\ UNCHANGED <<parallel, rev, module, built, cover, initCountersOnce, initCountersValue>>

\* "return mustInitValues", then the deferred mustInitOnce.Store(true)
MustInitReturn(t, w) ==
  /\ tests[t].pc = "ret"
  /\ rev = "handle"
  /\ tests' = [tests EXCEPT ![t] = SetupReturn(@, mustInitValues, w)]
  /\ mustInitOnce' = TRUE
  /\ last' = SetupEvent(t, tests'[t], w)
  /\ UNCHANGED <<parallel, rev, module, built, cover, mustInitValues,
                 initCountersOnce, initCountersValue, hist>>

(***************************************************************************)
(* part_001: initCounters, guarded by a sync.Once.  A caller that finds    *)
(* the Once running waits: no action of it is enabled.                     *)
(***************************************************************************)
\* the Once is done: return initCountersValue
InitCountersCached(t, w) ==
  /\ tests[t].pc = "init"
  /\ rev = "snapshot"
  /\ initCountersOnce = "done"
  /\ tests' = [tests EXCEPT ![t] = SetupReturn(@, initCountersValue, w)]
  /\ last' = SetupEvent(t, tests'[t], w)
  /\ UNCHANGED <<parallel, rev, module, built, cover, mustInitOnce, mustInitValues,
                 initCountersOnce, initCountersValue, hist>>

\* the first caller takes the Once
InitCountersEnter(t) ==
  /\ tests[t].pc = "init"
  /\ rev = "snapshot"
  /\ initCountersOnce = "fresh"
  /\ initCountersOnce' = "running"
  /\ tests' = [tests EXCEPT ![t].pc = "pipeline"]
  /\ last' = NoCall
  /\ UNCHANGED <<parallel, rev, module, built, cover, mustInitOnce, mustInitValues,
                 initCountersValue, hist>>

\* the function passed to Do: the pipeline and "initCountersValue = values"; the
\* Once is done also when the function ends in t.Fatalf
InitCountersBuild(t, w) ==
  /\ tests[t].pc = "pipeline"
  /\ rev = "snapshot"
  /\ \E o \in FileOrders(cover.Blocks) :
       LET r   == BuildValues(module, cover.Blocks, o, tests[t].isEnabled)
           obj == [id |-> hist.maps + 1, m |-> r.values]
       IN  /\ tests' = [tests EXCEPT ![t] =
                IF r.fatal # "" THEN Fatal(@, r.fatal) ELSE SetupReturn(@, obj, w)]
           /\ initCountersValue' = IF r.fatal # "" THEN initCountersValue ELSE obj
           /\ hist' = [hist EXCEPT !.runs = @ + 1,
                                   !.maps = IF r.fatal = "" THEN @ + 1 ELSE @,
                                   !.flags = Append(@, tests[t].isEnabled)]
           /\ last' = SetupEvent(t, tests'[t], w)
  /\ initCountersOnce' = "done"
  /\ UNCHANGED <<parallel, rev, module, built, cover, mustInitOnce, mustInitValues>>

(***************************************************************************)
(* The code under test and the coverage runtime.                           *)
(***************************************************************************)
InBody(t) == tests[t].pc = "body"

\* the bound on the operations that add to the state: Exec, a Tag that makes a
\* Counter, an assertion queued, a snapshot taken
Room == hist.ops < (IF parallel THEN MaxOpsParallel ELSE MaxOps)

\* history: one more such operation
Op == hist' = [hist EXCEPT !.ops = @ + 1]

\* history: one more increment of counter a since every capture that holds it
Bump(tr, a) ==
  [tr EXCEPT
     !.snaps = [i \in DOMAIN @ |->
                  IF a \in DOMAIN @[i].since
                    THEN [@[i] EXCEPT !.since[a] = @ + 1] ELSE @[i]],
     !.cbs   = [i \in DOMAIN @ |->
                  IF @[i].ctr = a THEN [@[i] EXCEPT !.since = @ + 1] ELSE @[i]]]

\* the counters of the blocks that hold a tagged comment
TaggedCells ==
  {a \in DOMAIN cover.Counters :
     \E p \in DOMAIN module.pkgs : \E i \in DOMAIN module.pkgs[p].files :
       LET f == module.pkgs[p].files[i]
           key == PathWithModule(f.abs)
       IN  /\ key \in DOMAIN cover.Blocks
           /\ a[1] = key[1] /\ a[2] = key[2]
           /\ \E k \in DOMAIN f.comments :
                 /\ HasTagPrefix(f.comments[k].text)
                 /\ Contains(cover.Blocks[key][a[3]], f.comments[k])}

\* the test's code runs through the tagged block a once: the instrumented code counts it
\* (mode set stores 1, modes count and atomic add 1)
Exec(t, a) ==
  /\ InBody(t)
  /\ Room
  /\ a \in DOMAIN cover.Counters
  /\ a \in TaggedCells
  /\ cover' = [cover EXCEPT !.Counters[a] = IF built = "set" THEN Nat32(1) ELSE Inc32(@)]
  /\ tests' = [u \in DOMAIN tests |->
                 Bump(tests[u], a)]
  /\ last' = Event(t, "Exec", "", "")
  /\ UNCHANGED <<parallel, rev, module, built, mustInitOnce, mustInitValues,
                 initCountersOnce, initCountersValue>>
  /\ Op

(***************************************************************************)
(* covers.go and revision v0: Covers.Tag, Counter and the cleanup.         *)
(***************************************************************************)
\* the mutant of TagOld: the baseline of a Counter is 0
TagOldZero(ctr) == Zero32

\* atomic.LoadUint32(ctr) in Tag: covers.go guards it with ctr != nil
TagOld(ctr) == IF ctr # NilPtr THEN cover.Counters[ctr] ELSE Zero32

\* the mutant of CoversTagOn: a tag that is not in the table gets a Counter on nil
CoversTagOnLenient(tr, tag) ==
  IF tr.c = "nil"
    THEN [tr EXCEPT !.panicked = TRUE, !.failed = TRUE, !.pc = "done"]
  ELSE LET ctr == IF tag \in DOMAIN tr.values.m THEN tr.values.m[tag] ELSE NilPtr
       IN  [tr EXCEPT !.cbs = Append(@, [name |-> tag, ctr |-> ctr, old |-> TagOld(ctr),
                                          cbs |-> <<>>, since |-> 0])]

\* Covers.Tag on the test's Covers
CoversTagOn(tr, tag) ==
  IF tr.c = "nil"
    THEN [tr EXCEPT !.panicked = TRUE, !.failed = TRUE, !.pc = "done"]
  ELSE IF tag \notin DOMAIN tr.values.m
    THEN Fatal(tr, "tag")
  ELSE LET ctr == tr.values.m[tag]
       IN  IF rev = "v0" /\ ctr = NilPtr
             THEN [tr EXCEPT !.panicked = TRUE, !.failed = TRUE, !.pc = "done"]
             ELSE [tr EXCEPT !.cbs = Append(@, [name |-> tag, ctr |-> ctr,
                                                 old |-> TagOld(ctr),
                                                 cbs |-> <<>>, since |-> 0])]

TagOutcome(before, after) ==
  IF after.panicked THEN "panic"
  ELSE IF after.fatal # "" THEN "fatal"
  ELSE IF Len(after.cbs) > Len(before.cbs) THEN "counter"
  ELSE "none"

\* c.Tag(tag)
CoversTag(t, tag) ==
  /\ InBody(t)
  /\ rev \in {"v0", "handle"}
  /\ tests' = [tests EXCEPT ![t] = CoversTagOn(@, tag)]
  /\ Len(tests'[t].cbs) > Len(tests[t].cbs) => Room
  /\ last' = Event(t, "Tag", tag, TagOutcome(tests[t], tests'[t]))
  /\ hist' = [hist EXCEPT !.ops = IF Len(tests'[t].cbs) > Len(tests[t].cbs)
                                    THEN @ + 1 ELSE @]
  /\ UNCHANGED <<parallel, rev, module, built, cover, mustInitOnce, mustInitValues,
                 initCountersOnce, initCountersValue>>

\* Counter.Run, Counter.IsZero, Counter.IsNotZero on the h-th Counter of the test:
\* Counter.run queues the assertion
CounterRun(t, h, kind) ==
  /\ InBody(t)
  /\ Room
  /\ rev \in {"v0", "handle"}
  /\ h \in DOMAIN tests[t].cbs
  /\ tests' = [tests EXCEPT ![t] =
       [@ EXCEPT !.cbs[h].cbs = Append(@, [kind |-> kind, reg |-> tests[t].nreg + 1]),
                 !.nreg = @ + 1]]
  /\ last' = NoCall
  /\ UNCHANGED <<parallel, rev, module, built, cover, mustInitOnce, mustInitValues,
                 initCountersOnce, initCountersValue>>
  /\ Op

\* one queued assertion of Counter ctr, run by the cleanup; e = [evals, failed,
\* fatal, panicked] is what the cleanup has done so far
RunCb(e, h, ctr, cb) ==
  IF ctr.ctr = NilPtr
    THEN [e EXCEPT !.panicked = TRUE, !.failed = TRUE]
  ELSE LET delta == Sub32(cover.Counters[ctr.ctr], ctr.old)
           rec   == [h |-> h, reg |-> cb.reg, kind |-> cb.kind, delta |-> delta,
                     since |-> ctr.since]
           e1    == [e EXCEPT !.evals = Append(@, rec)]
       IN  IF cb.kind = "Run" /\ rev = "v0" /\ cover.Mode \notin {"count", "atomic"}
             THEN [e EXCEPT !.fatal = "mode", !.failed = TRUE]
           ELSE IF cb.kind = "Run" /\ delta # Zero32
             THEN [e1 EXCEPT !.fatal = "callback", !.failed = TRUE]
           ELSE IF cb.kind = "IsZero" /\ delta # Zero32
             THEN [e1 EXCEPT !.failed = TRUE]
           ELSE IF cb.kind = "IsNotZero" /\ delta = Zero32
             THEN [e1 EXCEPT !.failed = TRUE]
           ELSE e1

\* finishedCB.done of one Counter: its queue, in order
RECURSIVE CounterDone(_, _, _, _)
CounterDone(e, h, ctr, j) ==
  IF e.fatal # "" \/ e.panicked \/ j > Len(ctr.cbs) THEN e
  ELSE CounterDone(RunCb(e, h, ctr, ctr.cbs[j]), h, ctr, j + 1)

\* the mutant of CoversDone: the Counters are run last to first
RECURSIVE CoversDoneReversed(_, _, _)
CoversDoneReversed(e, cbs, h) ==
  IF e.fatal # "" \/ e.panicked \/ h > Len(cbs) THEN e
  ELSE CoversDoneReversed(CounterDone(e, Len(cbs) + 1 - h, cbs[Len(cbs) + 1 - h], 1),
                          cbs, h + 1)

\* finishedCB.done of the Covers: the Counters' done, in the order of the Tag calls
RECURSIVE CoversDone(_, _, _)
CoversDone(e, cbs, h) ==
  IF e.fatal # "" \/ e.panicked \/ h > Len(cbs) THEN e
  ELSE CoversDone(CounterDone(e, h, cbs[h], 1), cbs, h + 1)

\* the test function returns
EndBody(t) ==
  /\ tests[t].pc = "body"
  /\ tests' = [tests EXCEPT ![t].pc = "cleanup"]
  /\ last' = NoCall
  /\ UNCHANGED <<parallel, rev, module, built, cover, mustInitOnce, mustInitValues,
                 initCountersOnce, initCountersValue, hist>>

\* the test's cleanups run: the function Setup gave to t.Cleanup calls c.done(t)
Cleanup(t) ==
  /\ tests[t].pc = "cleanup"
  /\ LET tr == tests[t]
         e0 == [evals |-> <<>>, failed |-> tr.failed, fatal |-> "", panicked |-> FALSE]
         e  == IF tr.cleanup THEN CoversDone(e0, tr.cbs, 1) ELSE e0
     IN  /\ tests' = [tests EXCEPT ![t] =
              [@ EXCEPT !.pc = "done", !.evals = e.evals, !.failed = e.failed,
                        !.panicked = e.panicked,
                        !.fatal = IF e.fatal # "" THEN e.fatal ELSE @]]
         /\ last' = NoCall
  /\ UNCHANGED <<parallel, rev, module, built, cover, mustInitOnce, mustInitValues,
                 initCountersOnce, initCountersValue, hist>>

(***************************************************************************)
(* part_001: Counters.NewSnapshot and Snapshot.Tag.                        *)
(***************************************************************************)
\* the mutant of TakeSnapshot: the capture also renews the base values of the
\* snapshots the test holds
TakeSnapshotRebase(t) ==
  /\ InBody(t)
  /\ Room
  /\ rev = "snapshot"
  /\ tests' = [tests EXCEPT ![t] =
       [@ EXCEPT !.snaps =
          Append([i \in DOMAIN @ |->
                    [@[i] EXCEPT !.values = NewSnapshot(tests[t].values.m).values]],
                 NewSnapshot(tests[t].values.m))]]
  /\ last' = NoCall
  /\ UNCHANGED <<parallel, rev, module, built, cover, mustInitOnce, mustInitValues,
                 initCountersOnce, initCountersValue>>
  /\ Op

\* c.NewSnapshot() in the test body
TakeSnapshot(t) ==
  /\ InBody(t)
  /\ Room
  /\ rev = "snapshot"
  /\ tests' = [tests EXCEPT ![t] =
       [@ EXCEPT !.snaps = Append(@, NewSnapshot(tests[t].values.m))]]
  /\ last' = NoCall
  /\ UNCHANGED <<parallel, rev, module, built, cover, mustInitOnce, mustInitValues,
                 initCountersOnce, initCountersValue>>
  /\ Op

\* Snapshot.Tag on snapshot ss of the Counters of tr: what the call does
SnapshotTagOn(tr, ss, tag) ==
  IF tag \notin DOMAIN tr.values.m
    THEN [fatal |-> "tag", out |-> "fatal", delta |-> Zero32, since |-> 0]
  ELSE LET addr == tr.values.m[tag] IN
    IF addr \notin DOMAIN ss.values
      THEN [fatal |-> "snaptag", out |-> "fatal", delta |-> Zero32, since |-> 0]
    ELSE IF addr = NilPtr
      THEN [fatal |-> "", out |-> "skipped", delta |-> Zero32, since |-> 0]
    ELSE [fatal |-> "", out |-> "delivered",
          delta |-> Sub32(cover.Counters[addr], ss.values[addr]),
          since |-> ss.since[addr]]

\* ss.Tag(tag, f) on the s-th snapshot of the test (the first is c.Snapshot)
SnapshotTag(t, s, tag) ==
  /\ InBody(t)
  /\ rev = "snapshot"
  /\ s \in DOMAIN tests[t].snaps
  /\ LET r == SnapshotTagOn(tests[t], tests[t].snaps[s], tag)
     IN  /\ tests' = [tests EXCEPT ![t] =
              IF r.fatal # "" THEN Fatal(@, r.fatal) ELSE @]
         /\ last' = [t |-> t, op |-> "SnapshotTag", tag |-> tag, out |-> r.out,
                     snap |-> s, delta |-> r.delta, since |-> r.since]
  /\ UNCHANGED <<parallel, rev, module, built, cover, mustInitOnce, mustInitValues,
                 initCountersOnce, initCountersValue, hist>>

(***************************************************************************)
(* The process.                                                            *)
(***************************************************************************)
Next ==
  \/ \E t \in DOMAIN tests, cm \in CoverModes : SetupEnter(t, cm)
  \/ \E t \in DOMAIN tests, w \in Wrappers, cm \in CoverModes : SetupEnterV0(t, w, cm)
  \/ \E t \in DOMAIN tests, w \in Wrappers : CoversInitV0(t, w)
  \/ \E t \in DOMAIN tests, w \in Wrappers : MustInitCached(t, w)
  \/ \E t \in DOMAIN tests : MustInitEnter(t)
  \/ \E t \in DOMAIN tests : MustInitBuild(t)
  \/ \E t \in DOMAIN tests, w \in Wrappers : MustInitReturn(t, w)
  \/ \E t \in DOMAIN tests, w \in Wrappers : InitCountersCached(t, w)
  \/ \E t \in DOMAIN tests : InitCountersEnter(t)
  \/ \E t \in DOMAIN tests, w \in Wrappers : InitCountersBuild(t, w)
  \/ \E t \in DOMAIN tests, a \in DOMAIN cover.Counters : Exec(t, a)
  \/ \E t \in DOMAIN tests, tag \in AskedTags : CoversTag(t, tag)
  \/ \E t \in DOMAIN tests, h \in 1..MaxOps, kind \in Kinds : CounterRun(t, h, kind)
  \/ \E t \in DOMAIN tests : EndBody(t)
  \/ \E t \in DOMAIN tests : Cleanup(t)
  \/ \E t \in DOMAIN tests : TakeSnapshot(t)
  \/ \E t \in DOMAIN tests, s \in 1..(MaxOps + 1), tag \in AskedTags : SnapshotTag(t, s, tag)

Spec == Init /\ [][Next]_vars

SpecParallel == InitParallel /\ [][Next]_vars

(***************************************************************************)
(* The binding on its own: one call of Setup against every small module.   *)
(* covers.go is the module's only file; its tagged comments and its blocks *)
(* lie on the positions 1..MaxLine x 1..MaxCol.                            *)
(***************************************************************************)
Positions == (1..MaxLine) \X (1..MaxCol)

\* position p comes before position q in the file
Before(p, q) == p[1] < q[1] \/ (p[1] = q[1] /\ p[2] < q[2])

\* the tags of the comments of these modules
BindTags == {"foobar", "dup"}

\* syntax.Comments of covers.go: one or two tagged comments, in file order
BindComments ==
  {<<Comment(p[1], p[2], TagName, "foobar")>> : p \in Positions}
  \cup {<<Comment(pq[1][1], pq[1][2], TagName, "foobar"),
          Comment(pq[2][1], pq[2][2], TagName, tg)>> :
          pq \in {x \in Positions \X Positions : Before(x[1], x[2])}, tg \in BindTags}

\* cover.Blocks of covers.go: at most two blocks, ordered by their start, none
\* overlapping another; a block may start where the one before it ends
BindBlocks ==
  {<<>>}
  \cup {<<Block(pq[1][1], pq[1][2], pq[2][1], pq[2][2])>> :
          pq \in {x \in Positions \X Positions : Before(x[1], x[2])}}
  \cup {<<Block(b[1][1], b[1][2], b[2][1], b[2][2]),
          Block(b[3][1], b[3][2], b[4][1], b[4][2])>> :
          b \in {x \in Positions \X Positions \X Positions \X Positions :
                   /\ Before(x[1], x[2])
                   /\ (x[2] = x[3] \/ Before(x[2], x[3]))
                   /\ Before(x[3], x[4])}}

\* the instrumentation modes of these binaries
BindModes == {"", "set", "count"}

\* what the first packages.Load may return
Loads == {"ok", "error", "empty"}

InitBind ==
  /\ parallel = FALSE
  /\ rev = "handle"
  /\ built \in BindModes
  /\ \E cs \in BindComments, bs \in BindBlocks, ld \in Loads :
       /\ ld # "ok" => (cs = <<Comment(1, 1, TagName, "foobar")>> /\ bs = <<>>)
       /\ module = [loads |-> ld,
                    pkgs |-> << [files |-> << [abs |-> <<ModuleDir, "covers.go">>,
                                               comments |-> cs] >>] >>]
       /\ cover = CoverOf([blocks |-> (CoversGo :> bs)], built, Zero32)
  /\ InitCommon

\* the first test of the run goes through Setup
NextBind ==
  \/ \E cm \in CoverModes : SetupEnter(TestOrder[1], cm)
  \/ MustInitEnter(TestOrder[1])
  \/ MustInitBuild(TestOrder[1])
  \/ \E w \in Wrappers : MustInitReturn(TestOrder[1], w)

SpecBind == InitBind /\ [][NextBind]_vars

(***************************************************************************)
(* The binding against a module of two files and up to MaxPkgs packages:   *)
(* packages.Load returns the packages and their files in any order, and    *)
(* "range cover.Blocks" visits the two block lists in any order.           *)
(***************************************************************************)
MaxPkgs == 2

OtherGo == <<ModulePath, "other.go">>

\* the files of the module
OrderFiles == {"covers.go", "other.go"}

\* syntax.Comments of one file
OrderComments ==
  {<<>>,
   <<Comment(1, 1, TagName, "foobar")>>,
   <<Comment(1, 1, TagName, "dup")>>,
   <<Comment(1, 1, TagName, "foobar"), Comment(2, 1, TagName, "dup")>>,
   <<Comment(1, 1, TagName, "foobar"), Comment(2, 1, TagName, "foobar")>>}

\* the block list of one file
OrderBlocks ==
  {<<Block(1, 1, 1, 2)>>,
   <<Block(1, 1, 2, 2)>>,
   <<Block(1, 1, 1, 2), Block(2, 1, 2, 2)>>}

\* the sequences over S without a repeated element, of length 1 to n
Arrangements(S, n) ==
  UNION {{o \in [1..k -> S] : \A i, j \in 1..k : i # j => o[i] # o[j]} : k \in 1..n}

\* pkg.CompiledGoFiles of one package: some of the files, in any order
OrderPkgFiles == Arrangements(OrderFiles, Cardinality(OrderFiles))

\* what packages.Load returns: 1 to MaxPkgs packages; a file may be in several of
\* them, as it is in a package and in its test variant
OrderPkgs == UNION {[1..k -> OrderPkgFiles] : k \in 1..MaxPkgs}

InitOrder ==
  /\ parallel = FALSE
  /\ rev = "handle"
  /\ built \in BindModes
  /\ \E cs \in [OrderFiles -> OrderComments], bs \in [OrderFiles -> OrderBlocks],
        ps \in OrderPkgs :
       /\ module = [loads |-> "ok",
                    pkgs |-> [p \in DOMAIN ps |->
                               [files |-> [i \in DOMAIN ps[p] |->
                                  [abs |-> <<ModuleDir, ps[p][i]>>,
                                   comments |-> cs[ps[p][i]]]]]]]
       /\ cover = CoverOf([blocks |-> (CoversGo :> bs["covers.go"])
                                       @@ (OtherGo :> bs["other.go"])],
                          built, Zero32)
  /\ InitCommon

SpecOrder == InitOrder /\ [][NextBind]_vars

(***************************************************************************)
(* Properties.                                                             *)
(***************************************************************************)
\* the tests that hold what Setup returned
Returned == {t \in DOMAIN tests : tests[t].c = "ok"}

\* C1: when tests call the setup routine concurrently, the pipeline runs exactly
\* once in the process and every caller receives the same table object
\* (revisions covers.go and part_001)
C1_PipelineOnceSameTable ==
  rev \in {"handle", "snapshot"} =>
    /\ hist.runs <= 1
    /\ \A t, u \in Returned : tests[t].values.id = tests[u].values.id

\* the tags carried by the annotations the pipeline scans
ScannedTags ==
  UNION {UNION {{TrimTagPrefix(c.text) : c \in {x \in Range(f.comments) : HasTagPrefix(x.text)}} :
                  f \in {x \in Range(pkg.files) : HasDirPrefix(x.abs)}} :
           pkg \in Range(module.pkgs)}

\* C2: in a sequential run with instrumentation on, a Tag call on a snapshot
\* delivers delta = K when the tagged counter was incremented exactly K times
\* since the capture of that snapshot, whatever the counter held at the capture
C2_SnapshotDeltaIsK ==
  (rev = "snapshot" /\ last.op = "SnapshotTag" /\ last.out = "delivered") =>
    /\ built \in {"count", "atomic"}
    /\ last.delta = Nat32(last.since)

\* C2, its case: a counter that held 2^32 - 1 at the capture, run twice since, is
\* delivered as delta 2
C2_Witness ==
  /\ rev = "snapshot" /\ last.op = "SnapshotTag" /\ last.out = "delivered"
  /\ last.since = 2 /\ last.delta = Nat32(2)
  /\ Max32 \in Range(tests[last.t].snaps[last.snap].values)

\* C3: in every coverage mode and under every wrapper, a Tag call for a tag that
\* no scanned annotation carries fails the test fatally at that call, and no
\* Counter, callback or delta exists for that tag (revisions covers.go and part_001)
C3_MissingTagIsFatal ==
  rev \in {"handle", "snapshot"} =>
    /\ (last.op \in {"Tag", "SnapshotTag"} /\ last.tag \notin ScannedTags) =>
         /\ last.out = "fatal"
         /\ tests[last.t].fatal = "tag"
         /\ tests[last.t].pc = "cleanup"
    /\ \A t \in DOMAIN tests : \A h \in DOMAIN tests[t].cbs :
         tests[t].cbs[h].name \in ScannedTags

\* C3, its case: the handle came from May or Should without coverage, and the Tag
\* call for a tag that is in no scanned file has failed the test
C3_Witness ==
  /\ rev = "handle" /\ last.op = "Tag" /\ last.tag \notin ScannedTags
  /\ tests[last.t].err = "ErrNoCoverage"
  /\ last.out = "fatal" /\ tests[last.t].fatal = "tag"

\* the annotations the pipeline scans, each with the key of its file in cover.Blocks
Annotations ==
  UNION {UNION {{[key |-> PathWithModule(f.abs), c |-> c] :
                    c \in {x \in Range(f.comments) : HasTagPrefix(x.text)}} :
                  f \in {x \in Range(pkg.files) : HasDirPrefix(x.abs)}} :
           pkg \in Range(module.pkgs)}

\* the counter cells of the blocks the matcher finds annotation an in
CellsOf(an) ==
  IF an.key \in DOMAIN cover.Blocks
    THEN {Addr(an.key, i) : i \in {j \in DOMAIN cover.Blocks[an.key] :
                                     Contains(cover.Blocks[an.key][j], an.c)}}
    ELSE {}

\* two annotations carry tag g and lie in blocks with different cells
DupTag(g) ==
  \E x, y \in Annotations :
    /\ x # y
    /\ TrimTagPrefix(x.c.text) = g /\ TrimTagPrefix(y.c.text) = g
    /\ \E a \in CellsOf(x), b \in CellsOf(y) : a # b

\* two annotations or more carry tag g and all of them lie in the one cell a
SameCell(g, a) ==
  /\ \E x, y \in Annotations :
       x # y /\ TrimTagPrefix(x.c.text) = g /\ TrimTagPrefix(y.c.text) = g
  /\ \A x \in Annotations : TrimTagPrefix(x.c.text) = g => CellsOf(x) = {a}

\* mustInit of test t has run the pipeline, which no other call has run
PipelineRan(t) ==
  /\ rev = "handle"
  /\ hist.runs = 1
  /\ module.loads = "ok"
  /\ tests[t].pc \in {"ret", "body", "cleanup"}

\* what C4 says of the outcome of the pipeline run by test t
DuplicateRule(t) ==
  /\ (\E g \in ScannedTags : DupTag(g)) =>
       (tests[t].fatal = "dup" /\ mustInitValues = NilMap)
  /\ \A g \in ScannedTags, a \in DOMAIN cover.Counters :
       (SameCell(g, a) /\ ScannedTags = {g}) =>
         /\ tests[t].fatal = ""
         /\ g \in DOMAIN mustInitValues.m
         /\ mustInitValues.m[g] = a

\* C4 as stated: whenever two annotations with the same tag lie in blocks with
\* different counter cells the binding fails with the duplicate-tag error and no
\* table is published; two annotations with the same tag in the same cell are no
\* error and bind the tag to that cell
C4_DuplicateTagAlways ==
  \A t \in DOMAIN tests : PipelineRan(t) => DuplicateRule(t)

\* C4, amended: the same, when Setup found the coverage mode count or atomic (the
\* matcher is skipped otherwise)
C4_DuplicateTagEnabled ==
  \A t \in DOMAIN tests : (PipelineRan(t) /\ tests[t].isEnabled) => DuplicateRule(t)

\* C4, its case: coverage is on, a tag lies in two cells and the pipeline has
\* ended in the duplicate-tag error
C4_Witness ==
  \E t \in DOMAIN tests :
    /\ PipelineRan(t) /\ tests[t].isEnabled
    /\ \E g \in ScannedTags : DupTag(g)
    /\ tests[t].fatal = "dup"

\* C6: with instrumentation enabled an annotation that lies in no block makes the
\* binding fail fatally at setup; with instrumentation disabled the annotation is
\* in the table with a nil counter
C6_UnboundAnnotation ==
  \A t \in DOMAIN tests : PipelineRan(t) =>
    /\ (tests[t].isEnabled /\ \E an \in Annotations : CellsOf(an) = {}) =>
         tests[t].fatal # ""
    /\ ~tests[t].isEnabled =>
         \A an \in Annotations :
           /\ TrimTagPrefix(an.c.text) \in DOMAIN mustInitValues.m
           /\ mustInitValues.m[TrimTagPrefix(an.c.text)] = NilPtr

\* C7: for every annotation and every block list that is ordered and does not
\* overlap (a block may start where the one before it ends), the containment test
\* of the matcher is satisfied by at most one block
C7_AtMostOneBlock ==
  \A t \in DOMAIN tests : (PipelineRan(t) /\ tests[t].isEnabled) =>
    \A an \in Annotations : Cardinality(CellsOf(an)) <= 1

\* the t.Fatalf calls of the pipeline
PipelineFatals == {"load", "empty", "dup", "target"}

\* C5: in a process without coverage instrumentation Setup returns ErrNoCoverage
\* and a usable handle; May and Should return the handle and the test goes on, a
\* Tag call for a tag of the source does not fail the test, no assertion or
\* callback gets a delta other than 0; Must fails the test with the error
C5_DisabledHandleUsable ==
  \A t \in DOMAIN tests : (built = "" /\ tests[t].err = "ErrNoCoverage") =>
    /\ (tests[t].pc \in {"body", "cleanup", "done"} /\ tests[t].fatal \notin PipelineFatals)
         => tests[t].c = "ok"
    /\ ~tests[t].panicked
    /\ tests[t].fatal \in {"", "setup", "tag"}
    /\ \A i \in DOMAIN tests[t].evals : tests[t].evals[i].delta = Zero32
    /\ last.t = t =>
         /\ last.op \in {"May", "Should"} => last.out = "handle"
         /\ last.op = "Must" => (last.out = "fatal" /\ tests[t].fatal = "setup")
         /\ (last.op \in {"Tag", "SnapshotTag"} /\ last.tag \in ScannedTags)
              => last.out \in {"counter", "skipped"}
         /\ last.out = "delivered" => last.delta = Zero32

\* the table the process caches
CachedTable == IF rev = "handle" THEN mustInitValues ELSE initCountersValue

\* C8: once the first call of setup has built the table, no later call runs the
\* pipeline again or changes the table, whatever flag it passes, and every later
\* caller gets that first table (revisions covers.go and part_001)
C8_TableFixedByFirstCall ==
  /\ [](rev \in {"handle", "snapshot"} =>
          \A t \in Returned : tests[t].values.id \in {0, 1})
  /\ [][(rev \in {"handle", "snapshot"} /\ CachedTable.id # 0) =>
          (CachedTable' = CachedTable /\ hist'.runs = hist.runs)]_vars

\* the delta a Tag call on snapshot ss would deliver now for counter a
DeltaNow(ss, a) == Sub32(cover.Counters[a], ss.values[a])

\* C9: the snapshots of a test are independent: at any moment the delta through a
\* snapshot is the number of increments since that snapshot's own capture, and
\* no step, a new capture or a Tag call on another snapshot included, changes
\* the base values a snapshot holds
C9_SnapshotsIndependent ==
  /\ [](rev = "snapshot" =>
          \A t \in DOMAIN tests : \A s \in DOMAIN tests[t].snaps :
            \A a \in DOMAIN tests[t].snaps[s].values \ {NilPtr} :
              DeltaNow(tests[t].snaps[s], a) = Nat32(tests[t].snaps[s].since[a]))
  /\ [][\A t \in DOMAIN tests : \A s \in DOMAIN tests[t].snaps :
          /\ s \in DOMAIN tests'[t].snaps
          /\ tests'[t].snaps[s].values = tests[t].snaps[s].values]_vars

\* C9, its case: two snapshots of one test, the counter run once before the
\* second capture and once after it, and a Tag call on the first delivers 2
C9_Witness ==
  /\ rev = "snapshot" /\ last.op = "SnapshotTag" /\ last.out = "delivered"
  /\ last.snap = 1 /\ last.delta = Nat32(2)
  /\ Len(tests[last.t].snaps) = 2
  /\ \E a \in DOMAIN tests[last.t].snaps[2].values \ {NilPtr} :
       /\ tests[last.t].snaps[2].since[a] = 1
       /\ tests[last.t].snaps[1].since[a] = 2

\* the queued assertions the cleanup of test t has evaluated
Evaluated(t) == tests[t].evals

\* C10 as stated: the cleanup evaluates the queued assertions in the order in
\* which the test registered them, also when the registrations on two Counters
\* interleave
C10_RegistrationOrder ==
  \A t \in DOMAIN tests : \A i, j \in DOMAIN Evaluated(t) :
    i < j => Evaluated(t)[i].reg < Evaluated(t)[j].reg

\* C10, amended: the cleanup evaluates the Counters in the order of the Tag calls
\* that made them, and the assertions of one Counter in the order in which they
\* were registered on it
C10_CounterThenRegistrationOrder ==
  \A t \in DOMAIN tests : \A i, j \in DOMAIN Evaluated(t) :
    i < j => \/ Evaluated(t)[i].h < Evaluated(t)[j].h
             \/ /\ Evaluated(t)[i].h = Evaluated(t)[j].h
                /\ Evaluated(t)[i].reg < Evaluated(t)[j].reg

\* C10, its case: a test registered on its second Counter first and then on its
\* first, and the cleanup has evaluated both assertions
C10_Witness ==
  \E t \in DOMAIN tests :
    /\ tests[t].pc = "done"
    /\ Len(Evaluated(t)) = 2
    /\ Evaluated(t)[1].h = 1 /\ Evaluated(t)[1].reg = 2
    /\ Evaluated(t)[2].h = 2 /\ Evaluated(t)[2].reg = 1

\* test t is past its call of May, Should or Must, and the pipeline did not fail
PastSetup(t) ==
  /\ tests[t].pc \in {"body", "cleanup", "done"}
  /\ tests[t].fatal \notin PipelineFatals

\* C11: in a process whose coverage mode is neither count nor atomic (mode set),
\* Setup returns an error that wraps ErrWrongMode, Must fails the test, and under
\* May or Should no assertion or callback gets a delta of a counter of that mode
C11_WrongModeRejected ==
  (built = "set" /\ hist.regs = 0) =>
    \A t \in DOMAIN tests :
      /\ PastSetup(t) => tests[t].err = "ErrWrongMode"
      /\ tests[t].evals = <<>>
      /\ last.t = t =>
           /\ last.op = "Must" => (last.out = "fatal" /\ tests[t].fatal = "setup")
           /\ last.out # "delivered"

\* C12: a resolution error or a binding error of the construction is fatal to the
\* test that calls setup, under May, Should and Must alike, and to every test of
\* the process that calls setup, those that call it after an earlier caller's
\* construction has failed included (all calls under one coverage mode)
C12_ConstructionErrorFatalForAll ==
  (hist.regs = 0 /\ \E u \in DOMAIN tests : tests[u].fatal \in PipelineFatals) =>
    \A t \in DOMAIN tests :
      tests[t].pc \in {"body", "cleanup", "done"} => tests[t].fatal \in PipelineFatals

\* the delta an assertion on Counter ctr would get now
CounterDeltaNow(ctr) == Sub32(cover.Counters[ctr.ctr], ctr.old)

\* C13: under every interleaving of concurrent tests, what a test reads for a tag
\* changes only when its own code runs the tagged block: a run of the block by
\* another test changes no delta of the test's snapshots or Counters, so a test
\* that does not run the block itself reads delta 0
C13_NoDeltaFromOtherTests ==
  [][\A t \in DOMAIN tests :
       (last'.op = "Exec" /\ last'.t # t /\ tests[t].pc = "body") =>
         /\ \A s \in DOMAIN tests[t].snaps :
              \A a \in DOMAIN tests[t].snaps[s].values \ {NilPtr} :
                DeltaNow(tests[t].snaps[s], a)' = DeltaNow(tests[t].snaps[s], a)
         /\ \A h \in DOMAIN tests[t].cbs :
              tests[t].cbs[h].ctr # NilPtr =>
                CounterDeltaNow(tests[t].cbs[h])' = CounterDeltaNow(tests[t].cbs[h])]_vars

\* the comments of commentMapEntry that the loop over it reaches and matches to
\* block, as indexes of entry: the position tests with the early break
RECURSIVE MatchLoop(_, _, _)
MatchLoop(entry, k, block) ==
  IF k > Len(entry) THEN {}
  ELSE LET c == entry[k] IN
    IF c.line < block.line0 THEN MatchLoop(entry, k + 1, block)
    ELSE IF c.line > block.line1 THEN {}
    ELSE IF c.line = block.line0 /\ c.col < block.col0 THEN MatchLoop(entry, k + 1, block)
    ELSE IF c.line = block.line1 /\ c.col > block.col1 THEN MatchLoop(entry, k + 1, block)
    ELSE {k} \cup MatchLoop(entry, k + 1, block)

\* the containment rule: position (L, C) of c is inside block b
InBlockRule(b, c) ==
  /\ (b.line0 < c.line \/ (b.line0 = c.line /\ b.col0 <= c.col))
  /\ (c.line < b.line1 \/ (c.line = b.line1 /\ c.col <= b.col1))

IsTagged(c) == HasTagPrefix(c.text)

\* commentMapEntry of covers.go in the first package: its tagged comments in
\* source order
EntryOfCoversGo == SelectSeq(module.pkgs[1].files[1].comments, IsTagged)

\* the (comment, block) pairs of covers.go that satisfy the containment rule
RulePairs ==
  IF CoversGo \in DOMAIN cover.Blocks
    THEN {ki \in (DOMAIN EntryOfCoversGo) \X (DOMAIN cover.Blocks[CoversGo]) :
            InBlockRule(cover.Blocks[CoversGo][ki[2]], EntryOfCoversGo[ki[1]])}
    ELSE {}

\* C14: for tagged comments in ascending source order and every block list, the
\* matching loop with its early break matches a (comment, block) pair exactly
\* when the pair satisfies the containment rule, and the outcome of the binding
\* is the one of these pairs: the table binds the tags of the pairs to the cells
\* of their blocks, and the duplicate-tag failure needs two pairs with one tag
C14_BreakKeepsAllPairs ==
  \A t \in DOMAIN tests : (PipelineRan(t) /\ tests[t].isEnabled) =>
    /\ \A i \in DOMAIN cover.Blocks[CoversGo] :
         MatchLoop(EntryOfCoversGo, 1, cover.Blocks[CoversGo][i])
           = {k \in DOMAIN EntryOfCoversGo : <<k, i>> \in RulePairs}
    /\ tests[t].fatal \in {"", "dup"}
    /\ tests[t].fatal = "" =>
         /\ DOMAIN mustInitValues.m
              = {TrimTagPrefix(EntryOfCoversGo[ki[1]].text) : ki \in RulePairs}
         /\ \A ki \in RulePairs :
              mustInitValues.m[TrimTagPrefix(EntryOfCoversGo[ki[1]].text)]
                = Addr(CoversGo, ki[2])
    /\ tests[t].fatal = "dup" =>
         \E x, y \in RulePairs :
           /\ x[2] # y[2]
           /\ EntryOfCoversGo[x[1]].text = EntryOfCoversGo[y[1]].text

\* C14, its case: the loop for a block matched a comment and broke off at a later
\* comment that lies below the block, and the table binds the matched tag
C14_Witness ==
  \E t \in DOMAIN tests :
    /\ PipelineRan(t) /\ tests[t].isEnabled /\ tests[t].fatal = ""
    /\ \E ki \in RulePairs :
         /\ \E k \in DOMAIN EntryOfCoversGo :
              k > ki[1] /\ EntryOfCoversGo[k].line > cover.Blocks[CoversGo][ki[2]].line1
         /\ Len(cover.Blocks[CoversGo]) = 2
         /\ mustInitValues.m[TrimTagPrefix(EntryOfCoversGo[ki[1]].text)]
              = Addr(CoversGo, ki[2])

\* C15: with instrumentation enabled, every assertion queued on a handle before
\* the test ends is evaluated exactly once by the cleanup, after a normal end of
\* the body and after an early failure, and also when an assertion queued before
\* it fails, a Run callback that calls t.Fatalf included
C15_AllQueuedEvaluatedOnce ==
  \A t \in DOMAIN tests :
    (/\ built \in {"count", "atomic"} /\ hist.regs = 0
     /\ tests[t].pc = "done" /\ tests[t].c = "ok") =>
      /\ Len(Evaluated(t)) = tests[t].nreg
      /\ \A n \in 1..tests[t].nreg :
           Cardinality({i \in DOMAIN Evaluated(t) : Evaluated(t)[i].reg = n}) = 1

\* C16: every snapshot made from the table holds a base value for the counter
\* address of every tag of the table, the nil address included, so the second
\* "tag not found" of Snapshot.Tag never happens, and two tags bound to one
\* address get the same delta through one snapshot
C16_SnapshotCoversTable ==
  rev = "snapshot" =>
    \A t \in DOMAIN tests :
      /\ tests[t].fatal # "snaptag"
      /\ \A s \in DOMAIN tests[t].snaps :
           /\ \A g \in DOMAIN tests[t].values.m :
                tests[t].values.m[g] \in DOMAIN tests[t].snaps[s].values
           /\ \A g1, g2 \in DOMAIN tests[t].values.m :
                tests[t].values.m[g1] = tests[t].values.m[g2] =>
                  SnapshotTagOn(tests[t], tests[t].snaps[s], g1)
                    = SnapshotTagOn(tests[t], tests[t].snaps[s], g2)

\* C16, its case: a test holds two snapshots, its table binds two tags to one
\* counter that has run since the first capture, and a Tag call has delivered
C16_Witness ==
  /\ rev = "snapshot" /\ last.op = "SnapshotTag" /\ last.out = "delivered"
  /\ last.since >= 1
  /\ Len(tests[last.t].snaps) = 2
  /\ \E g1, g2 \in DOMAIN tests[last.t].values.m :
       /\ g1 # g2
       /\ tests[last.t].values.m[g1] = tests[last.t].values.m[g2]
       /\ tests[last.t].values.m[g1] # NilPtr

\* C17: in the handle API every Tag call makes a new Counter whose baseline is
\* the counter value at that call, and the cleanup evaluates every assertion of
\* the Counter with delta = the increments of the counter since that Tag call,
\* whenever the assertion was registered and whatever other Counters the test
\* made for the tag
C17_HandleBaselineAtTag ==
  rev = "handle" =>
    \A t \in DOMAIN tests :
      /\ \A i \in DOMAIN Evaluated(t) :
           Evaluated(t)[i].delta = Nat32(Evaluated(t)[i].since)
      /\ \A h \in DOMAIN tests[t].cbs :
           (tests[t].cbs[h].ctr # NilPtr /\ tests[t].pc \in {"body", "cleanup"}) =>
             CounterDeltaNow(tests[t].cbs[h]) = Nat32(tests[t].cbs[h].since)

\* C17, its case: a test made a Counter, ran the block, made a second Counter for
\* the same tag and only then registered an assertion on the first; the cleanup
\* has evaluated it with delta 1
C17_Witness ==
  \E t \in DOMAIN tests :
    /\ rev = "handle" /\ tests[t].pc = "done"
    /\ Len(tests[t].cbs) = 2
    /\ tests[t].cbs[1].name = tests[t].cbs[2].name
    /\ tests[t].cbs[1].old # tests[t].cbs[2].old
    /\ Len(Evaluated(t)) = 1
    /\ Evaluated(t)[1].h = 1 /\ Evaluated(t)[1].delta = Nat32(1)

\* C18: when every call of setup in the process finds the same coverage mode, no
\* assertion is evaluated by a load from a nil counter address: the cleanup is
\* registered only for a Covers whose table holds real addresses only
C18_NoNilLoad ==
  (rev = "handle" /\ hist.regs = 0) =>
    \A t \in DOMAIN tests :
      /\ ~tests[t].panicked
      /\ tests[t].cleanup =>
           /\ NilPtr \notin Range(tests[t].values.m)
           /\ \A h \in DOMAIN tests[t].cbs : tests[t].cbs[h].ctr # NilPtr

\* C18, its case: without coverage a test got a Counter on a nil address and
\* queued an assertion on it; the test is over and nothing was loaded
C18_Witness ==
  \E t \in DOMAIN tests :
    /\ rev = "handle" /\ hist.regs = 0
    /\ tests[t].pc = "done" /\ ~tests[t].cleanup /\ ~tests[t].panicked
    /\ Len(tests[t].cbs) >= 1
    /\ tests[t].cbs[1].ctr = NilPtr
    /\ Len(tests[t].cbs[1].cbs) >= 1

\* the orders of a sequence
SeqOrders(q) ==
  {[i \in DOMAIN q |-> q[o[i]]] :
     o \in {f \in [DOMAIN q -> DOMAIN q] : \A i, j \in DOMAIN q : i # j => f[i] # f[j]}}

\* the orders in which pkgs and the files of each package may come
PkgOrders(pkgs) ==
  UNION {{[p \in DOMAIN po |-> [files |-> fo[p]]] :
            fo \in {f \in [DOMAIN po -> UNION {SeqOrders(po[p].files) : p \in DOMAIN po}] :
                      \A p \in DOMAIN po : f[p] \in SeqOrders(po[p].files)}} :
         po \in SeqOrders(pkgs)}

\* the outcome of the pipeline: its t.Fatalf or the table
Outcome(r) == IF r.fatal # "" THEN <<r.fatal>> ELSE <<"", r.values>>

\* C19: the outcome of the binding, the table or the fatal duplicate-tag error, is
\* the one the pipeline has left, whatever the order of the packages, of the files
\* of each package and of the visit of the block lists of cover.Blocks
C19_OrderIndependent ==
  \A t \in DOMAIN tests : PipelineRan(t) =>
    \A ps \in PkgOrders(module.pkgs), o \in FileOrders(cover.Blocks) :
      Outcome(BuildValues([module EXCEPT !.pkgs = ps], cover.Blocks, o,
                          tests[t].isEnabled))
        = IF tests[t].fatal \in PipelineFatals THEN <<tests[t].fatal>>
                                                ELSE <<"", mustInitValues.m>>

\* C19, its case: two packages and two block lists, a tag bound in both files,
\* and the pipeline has ended in the duplicate-tag error
C19_Witness ==
  \E t \in DOMAIN tests :
    /\ PipelineRan(t) /\ tests[t].isEnabled
    /\ Len(module.pkgs) = 2
    /\ Cardinality(DOMAIN cover.Blocks) = 2
    /\ \E g \in ScannedTags : \E x, y \in Annotations :
         /\ TrimTagPrefix(x.c.text) = g /\ TrimTagPrefix(y.c.text) = g
         /\ \E a \in CellsOf(x), b \in CellsOf(y) : a[2] # b[2]
    /\ tests[t].fatal = "dup"

\* the values of uint32
IsUint32(v) == v[1] \in 0..(Half - 1) /\ v[2] \in 0..(Half - 1)

\* the counter holds less than the base value: it has wrapped past its maximum
\* since the base was read
Wrapped(old, new) == new[1] < old[1] \/ (new[1] = old[1] /\ new[2] < old[2])

\* C20: a delta is (current - base) mod 2^32: every delta handed to a callback of
\* Snapshot.Tag or to an assertion of a Counter is a uint32, never negative, and
\* is the number of increments since the base was read, also when the counter
\* has wrapped past its maximum in between
C20_DeltaModulo32 ==
  rev \in {"handle", "snapshot"} =>
    /\ (last.op = "SnapshotTag" /\ last.out = "delivered") =>
         IsUint32(last.delta) /\ last.delta = Nat32(last.since)
    /\ \A t \in DOMAIN tests :
         /\ \A i \in DOMAIN tests[t].evals :
              /\ IsUint32(tests[t].evals[i].delta)
              /\ tests[t].evals[i].delta = Nat32(tests[t].evals[i].since)
         /\ \A s \in DOMAIN tests[t].snaps :
              \A a \in DOMAIN tests[t].snaps[s].values \ {NilPtr} :
                Wrapped(tests[t].snaps[s].values[a], cover.Counters[a]) =>
                  /\ tests[t].snaps[s].since[a] >= 1
                  /\ DeltaNow(tests[t].snaps[s], a) = Nat32(tests[t].snaps[s].since[a])
         /\ \A h \in DOMAIN tests[t].cbs :
              (/\ tests[t].cbs[h].ctr # NilPtr
               /\ tests[t].pc \in {"body", "cleanup"}
               /\ Wrapped(tests[t].cbs[h].old, cover.Counters[tests[t].cbs[h].ctr])) =>
                /\ tests[t].cbs[h].since >= 1
                /\ CounterDeltaNow(tests[t].cbs[h]) = Nat32(tests[t].cbs[h].since)

\* C20, its case: a snapshot read the counter at its maximum, the block ran twice,
\* the counter wrapped to 1, and Tag delivered the delta 2
C20_Witness ==
  /\ rev = "snapshot" /\ last.op = "SnapshotTag" /\ last.out = "delivered"
  /\ last.since = 2 /\ last.delta = Nat32(2)
  /\ LET a == tests[last.t].values.m[last.tag]
     IN  /\ tests[last.t].snaps[last.snap].values[a] = Max32
         /\ cover.Counters[a] = Nat32(1)

====
